---- MODULE Spec2Model ----
(***************************************************************************)
(* The goal-enforcement engine of the LeetCode Forcer extension: the      *)
(* background service worker (debounced-verification revision), the       *)
(* storage helpers and the remote query client.                           *)
(*                                                                         *)
(* Every handler is an async function that reads and writes               *)
(* chrome.storage.local.  In SpecSync, SpecPolicy, SpecDays, SpecBypass,   *)
(* SpecReset, SpecProgress, SpecUrls, SpecAccount, SpecNotify,            *)
(* SpecMidnight and SpecLateBypass each handler runs to completion before  *)
(* the next one starts (one action per handler).  In SpecRaceSolve,        *)
(* SpecRaceBypass, SpecRaceVerify, SpecRacePoll and SpecForceRuns the      *)
(* handlers named there are taken one await at a time, so that their runs  *)
(* interleave; SpecForceRuns adds weak fairness on the steps that wait for *)
(* local storage only.                                                     *)
(* Handlers are written as operators from a context record                 *)
(*   [store, tab, alarms, now, fx]                                         *)
(* to the context after the handler, so that the statements of one         *)
(* function compose in source order.  fx logs what the handler did to the  *)
(* outside world (remote queries, redirects, notifications, response).     *)
(***************************************************************************)
EXTENDS Integers, Sequences, FiniteSets, TLC

\* ---------------------------------------------------------------- constants

MIN_POLL_INTERVAL_MS == 300000

FORCE_SYNC_DEDUP_MS == 10000

VERIFY_DELAY_MS == 45000

BYPASS_DURATION_MS == 10800000

MS_PER_DAY == 86400000

ALARM_DAILY_RESET == "dailyReset"

ALARM_BYPASS_EXPIRY == "bypassExpiry"

ALARM_VERIFY_SOLVE == "verifyAfterSolve"

\* JS null for numeric fields (timestamps, dates) and for string fields.
Null == -1

NullStr == "null"

\* ------------------------------------------------------------ date helpers

todayUTC(t) == t \div MS_PER_DAY

yesterdayUTC(t) == (t - MS_PER_DAY) \div MS_PER_DAY

nextUTCMidnight(t) == (t \div MS_PER_DAY) * MS_PER_DAY + MS_PER_DAY

Max(x, y) == IF x >= y THEN x ELSE y

\* ------------------------------------------------------------------- bounds

\* Days are numbered from the epoch; the model runs over days FirstDay..MaxDay.
\* FirstDay is the day after the epoch, so that the default lastPollTimestamp
\* (0) lies a day in the past, as it does for any real clock.
MaxDay == 3

FirstDay == todayUTC(MS_PER_DAY)

\* The largest daily goal the settings panel is used to save (it accepts 1..30).
MaxGoal == 2

\* Instants within a day at which something may happen (ms after UTC midnight):
\* midnight, one past the force-sync window and the debounce delay but inside
\* the cooldown, one past the cooldown.  Operations at the same instant are
\* less than the force-sync window apart.
Offsets == {0, 50000, 360000}

SyncTimes == {FirstDay * MS_PER_DAY + o : o \in Offsets}

Slugs == {"a", "b", "c"}

\* Slugs the sensors report, and the entries the remote list is drawn from:
\* the remote may lag behind the sensors ("a"), know solves the sensors missed
\* ("c"), and still list a submission of the day before.
SensorSlugs == {"a", "b"}

GoalChoices == 1..MaxGoal

USER == "user"

\* --------------------------------------------------------------------- URLs
\* A URL is its leading scheme text, its host labels as typed, and whether the
\* URL constructor accepts it.  The empty string is EmptyUrl.

Url(scheme, host, ok) == [scheme |-> scheme, host |-> host, parses |-> ok]

EmptyUrl == Url("", <<>>, FALSE)

SITE == Url("https://", <<"example", "com">>, TRUE)

WWW_LEETCODE == Url("https://", <<"WWW", "LeetCode", "com">>, TRUE)

NEWTAB == Url("chrome://", <<"newtab">>, TRUE)

GARBAGE == Url("not a valid url", <<>>, FALSE)

BLOCKED_PAGE == Url("chrome-extension://", <<"id">>, TRUE)

NavUrls == {SITE}

\* Addresses on the allow-list as typed (mixed case, with and without a
\* leading www label), one with two www labels, and a subdomain not listed.
LEETCODE == Url("https://", <<"leetcode", "com">>, TRUE)

WWW_GOOGLE_SSO == Url("https://", <<"www", "accounts", "google", "com">>, TRUE)

WWW_WWW_LEETCODE == Url("https://", <<"www", "www", "leetcode", "com">>, TRUE)

ABOUT_BLANK == Url("about:", <<>>, TRUE)

ExemptUrls == {LEETCODE, WWW_LEETCODE, WWW_GOOGLE_SSO, NEWTAB, ABOUT_BLANK, BLOCKED_PAGE}

MalformedUrls == {EmptyUrl, GARBAGE}

AllUrls == ExemptUrls \cup MalformedUrls \cup {SITE, WWW_WWW_LEETCODE}

\* No focused window: chrome.tabs.query returns no tab.
NoTab == Url("<no tab>", <<>>, FALSE)

ALLOWED_HOSTNAMES ==
    { <<"leetcode", "com">>, <<"accounts", "google", "com">>, <<"neetcode", "io">>,
      <<"takeuforward", "org">>, <<"geeksforgeeks", "org">>, <<"cp-algorithms", "com">>,
      <<"codeforces", "com">>, <<"interviewbit", "com">>, <<"algo", "monster">>,
      <<"lintcode", "com">>, <<"codingninjas", "com">>, <<"algoexpert", "io">>,
      <<"interviewing", "io">>, <<"hackerrank", "com">>, <<"github", "com">> }

ALLOWED_PREFIXES ==
    { "chrome://", "chrome-extension://", "arc://", "brave://", "edge://",
      "about:", "data:", "javascript:", "moz-extension://" }

\* The URL parser lower-cases the host of an http(s) URL.
LowerLabel(l) ==
    CASE l = "WWW" -> "www"
      [] l = "LeetCode" -> "leetcode"
      [] OTHER -> l

hostname(url) == [i \in 1..Len(url.host) |-> LowerLabel(url.host[i])]

\* isUrlAllowed refusing what the URL constructor rejects.
isUrlAllowed_FailClosed(url) ==
    IF url = EmptyUrl THEN TRUE
    ELSE IF url.scheme \in ALLOWED_PREFIXES THEN TRUE
    ELSE IF ~url.parses THEN FALSE
    ELSE LET h == hostname(url)
             stripped == IF Len(h) > 0 /\ h[1] = "www" THEN Tail(h) ELSE h
         IN  stripped \in ALLOWED_HOSTNAMES

\* isUrlAllowed comparing the host name as typed.
isUrlAllowed_AsTyped(url) ==
    IF url = EmptyUrl THEN TRUE
    ELSE IF url.scheme \in ALLOWED_PREFIXES THEN TRUE
    ELSE IF ~url.parses THEN TRUE
    ELSE LET h == url.host
             stripped == IF Len(h) > 0 /\ h[1] = "www" THEN Tail(h) ELSE h
         IN  stripped \in ALLOWED_HOSTNAMES

isUrlAllowed(url) ==
    IF url = EmptyUrl THEN TRUE
    ELSE IF url.scheme \in ALLOWED_PREFIXES THEN TRUE
    ELSE IF ~url.parses THEN TRUE
    ELSE LET h == hostname(url)
             stripped == IF Len(h) > 0 /\ h[1] = "www" THEN Tail(h) ELSE h
         IN  stripped \in ALLOWED_HOSTNAMES

\* ------------------------------------------------------------------- state

\* store, tab, alarms and now are the extension's world.  burst, lastUserSync
\* and last are history: the solve events since the verify alarm last fired,
\* the instant of the last force sync that reached the remote (Null once it is
\* FORCE_SYNC_DEDUP_MS or more ago), and what the last handler was and did.
\* tasks holds the handler runs suspended at an await, with their local
\* variables; it stays empty where each handler is taken as one step.
VARIABLES store, tab, alarms, now, burst, lastUserSync, last, tasks

vars == <<store, tab, alarms, now, burst, lastUserSync, last, tasks>>

DEFAULTS ==
    [ leetcodeUsername  |-> "",
      dailyGoal         |-> 1,
      requireDaily      |-> FALSE,
      notifyOnComplete  |-> TRUE,
      solvesToday       |-> 0,
      dailySolved       |-> FALSE,
      bypassUsed        |-> FALSE,
      bypassExpiresAt   |-> Null,
      lastPollDate      |-> Null,
      solvedSlugs       |-> {},
      loggedIn          |-> NullStr,
      dailySlug         |-> NullStr,
      dailyTitle        |-> NullStr,
      dailyLink         |-> NullStr,
      currentStreak     |-> 0,
      longestStreak     |-> 0,
      lastGoalMetDate   |-> Null,
      rewardExpiresAt   |-> Null,
      lastPollTimestamp |-> 0,
      lastBlockedUrl    |-> EmptyUrl ]

NoAlarms ==
    [ dailyReset |-> Null, bypassExpiry |-> Null, verifyAfterSolve |-> Null ]

\* What a handler did to the outside world.
NoFx ==
    [ fetches      |-> 0,          \* calls of fetchTodaySolves
      dailyFetches |-> 0,          \* calls of fetchDailyChallenge
      kind         |-> "none",     \* how the remote answered the activity query
      res          |-> [count |-> 0, slugs |-> {}, loggedIn |-> FALSE],
      redirected   |-> FALSE,      \* chrome.tabs.update to the block page
      goalMetFired |-> FALSE,      \* checkAndHandleGoalMet saw not-met -> met
      notified     |-> Null,       \* streak carried by the notification
      response     |-> "none",     \* sendResponse payload, abridged
      acked        |-> Null ]      \* activity queries made before sendResponse

\* How the two conditions of the background gate stood when a reconciliation
\* started: the cooldown had passed, no poll was recorded for today.
NoPre == [cooldown |-> FALSE, newDay |-> FALSE]

Pre(st, t) == [cooldown |-> t - st.lastPollTimestamp >= MIN_POLL_INTERVAL_MS,
               newDay   |-> st.lastPollDate # todayUTC(t)]

NoOp == [op |-> "init", slug |-> NullStr, url |-> EmptyUrl, dup |-> FALSE,
         burst |-> 0, pre |-> NoPre, metToday |-> FALSE, fx |-> NoFx]

\* A handler run: the handler, the await it is suspended at, and its locals:
\* the slug of the message, the state it last read, the clock value it last
\* took, the answer of the activity query, whether it saw the goal become met.
TaskIds == {"t1", "t2"}

Idle ==
    [ kind |-> "idle", pc |-> "done", slug |-> NullStr, state |-> DEFAULTS,
      t |-> Null, res |-> NoFx.res, fired |-> FALSE ]

NoTasks == [i \in TaskIds |-> Idle]

Ctx(st, tb, al, t) == [store |-> st, tab |-> tb, alarms |-> al, now |-> t, fx |-> NoFx]

\* getState / setState: chrome.storage.local.get(DEFAULTS) and .set(partial).
getState(c) == c.store

setState(c, partial) == [c EXCEPT !.store = partial @@ @]

\* sendResponse(payload) of a message listener.
sendResponse(c, payload) ==
    [c EXCEPT !.fx.response = payload, !.fx.acked = c.fx.fetches]

\* ---------------------------------------------------------- blocking policy

\* goalMet demanding more solves than the goal.
goalMet_Strict(state) ==
    state.solvesToday > state.dailyGoal /\ (~state.requireDaily \/ state.dailySolved)

goalMet(state) ==
    state.solvesToday >= state.dailyGoal /\ (~state.requireDaily \/ state.dailySolved)

bypassActive(state, t) ==
    state.bypassExpiresAt # Null /\ t < state.bypassExpiresAt

\* evaluateTab redirecting when either condition fails.
evaluateTab_Either(c, url) ==
    IF isUrlAllowed(url) THEN c
    ELSE LET state == getState(c) IN
         IF state.leetcodeUsername = "" THEN c
         ELSE IF ~goalMet(state) \/ ~bypassActive(state, c.now)
              THEN LET c1 == setState(c, [lastBlockedUrl |-> url])
                   IN  [c1 EXCEPT !.tab = BLOCKED_PAGE, !.fx.redirected = TRUE]
              ELSE c

evaluateTab(c, url) ==
    IF isUrlAllowed(url) THEN c
    ELSE LET state == getState(c) IN
         IF state.leetcodeUsername = "" THEN c
         ELSE IF ~goalMet(state) /\ ~bypassActive(state, c.now)
              THEN LET c1 == setState(c, [lastBlockedUrl |-> url])
                   IN  [c1 EXCEPT !.tab = BLOCKED_PAGE, !.fx.redirected = TRUE]
              ELSE c

evaluateBlocking(c) ==
    IF c.tab # NoTab /\ c.tab # EmptyUrl THEN evaluateTab(c, c.tab) ELSE c

\* ------------------------------------------------------------------ streak

\* updateStreak extending the streak whatever the last goal day was.
updateStreak_AlwaysExtend(c) ==
    LET state == getState(c)
        today == todayUTC(c.now)
    IN  IF state.lastGoalMetDate = today THEN c
        ELSE LET newStreak  == state.currentStreak + 1
                 newLongest == Max(newStreak, state.longestStreak)
             IN  setState(c, [currentStreak   |-> newStreak,
                              longestStreak   |-> newLongest,
                              lastGoalMetDate |-> today])

\* updateStreak leaving the record as it was.
updateStreak_RecordKept(c) ==
    LET state == getState(c)
        today == todayUTC(c.now)
    IN  IF state.lastGoalMetDate = today THEN c
        ELSE LET newStreak  == IF state.lastGoalMetDate = yesterdayUTC(c.now)
                               THEN state.currentStreak + 1 ELSE 1
             IN  setState(c, [currentStreak   |-> newStreak,
                              longestStreak   |-> state.longestStreak,
                              lastGoalMetDate |-> today])

\* updateStreak adding one to the stored streak at every call.
updateStreak_Blind(c) ==
    LET state == getState(c)
        newStreak  == state.currentStreak + 1
        newLongest == Max(newStreak, state.longestStreak)
    IN  setState(c, [currentStreak   |-> newStreak,
                     longestStreak   |-> newLongest,
                     lastGoalMetDate |-> todayUTC(c.now)])

\* updateStreak without the same-day guard.
updateStreak_NoGuard(c) ==
    LET state == getState(c)
        today == todayUTC(c.now)
        newStreak  == IF state.lastGoalMetDate = yesterdayUTC(c.now)
                      THEN state.currentStreak + 1 ELSE 1
        newLongest == Max(newStreak, state.longestStreak)
    IN  setState(c, [currentStreak   |-> newStreak,
                     longestStreak   |-> newLongest,
                     lastGoalMetDate |-> today])

updateStreak(c) ==
    LET state == getState(c)
        today == todayUTC(c.now)
    IN  IF state.lastGoalMetDate = today THEN c
        ELSE LET newStreak  == IF state.lastGoalMetDate = yesterdayUTC(c.now)
                               THEN state.currentStreak + 1 ELSE 1
                 newLongest == Max(newStreak, state.longestStreak)
             IN  setState(c, [currentStreak   |-> newStreak,
                              longestStreak   |-> newLongest,
                              lastGoalMetDate |-> today])

\* notifyGoalMet ignoring the notifyOnComplete setting.
notifyGoalMet_Always(c) ==
    LET state == getState(c)
    IN  [c EXCEPT !.fx.notified = state.currentStreak]

notifyGoalMet(c) ==
    LET state == getState(c)
    IN  IF ~state.notifyOnComplete THEN c
        ELSE [c EXCEPT !.fx.notified = state.currentStreak]

checkAndHandleGoalMet(c, prevState) ==
    LET state == getState(c)
        wasGoalMet == prevState.solvesToday >= prevState.dailyGoal
                      /\ (~prevState.requireDaily \/ prevState.dailySolved)
        isGoalMet  == state.solvesToday >= state.dailyGoal
                      /\ (~state.requireDaily \/ state.dailySolved)
    IN  IF ~wasGoalMet /\ isGoalMet
        THEN notifyGoalMet(updateStreak([c EXCEPT !.fx.goalMetFired = TRUE]))
        ELSE c

\* ----------------------------------------------------------- solve detected

createAlarm(c, name, when) == [c EXCEPT !.alarms[name] = when]

\* handleSolveDetected without the slug check.
handleSolveDetected_NoDedupe(c, questionSlug) ==
    LET prevState == getState(c)
        newSlugs    == prevState.solvedSlugs \cup {questionSlug}
        length      == Cardinality(prevState.solvedSlugs) + 1
        dailySolved == IF prevState.requireDaily /\ prevState.dailySlug = questionSlug
                       THEN TRUE ELSE prevState.dailySolved
        cw == setState(c, [solvesToday |-> length,
                           solvedSlugs |-> newSlugs,
                           dailySolved |-> dailySolved])
        c1 == checkAndHandleGoalMet(cw, prevState)
        c2 == evaluateBlocking(c1)
    IN  createAlarm(c2, ALARM_VERIFY_SOLVE, c2.now + VERIFY_DELAY_MS)

\* handleSolveDetected evaluating the policy before the update is written.
handleSolveDetected_EvaluateFirst(c, questionSlug) ==
    LET prevState == getState(c)
        c0 == evaluateBlocking(c)
        c1 == IF questionSlug \notin prevState.solvedSlugs
              THEN LET newSlugs    == prevState.solvedSlugs \cup {questionSlug}
                       length      == Cardinality(prevState.solvedSlugs) + 1
                       dailySolved == IF prevState.requireDaily
                                         /\ prevState.dailySlug = questionSlug
                                      THEN TRUE ELSE prevState.dailySolved
                       cw == setState(c0, [solvesToday |-> length,
                                           solvedSlugs |-> newSlugs,
                                           dailySolved |-> dailySolved])
                   IN  checkAndHandleGoalMet(cw, prevState)
              ELSE c0
    IN  createAlarm(c1, ALARM_VERIFY_SOLVE, c1.now + VERIFY_DELAY_MS)

handleSolveDetected(c, questionSlug) ==
    LET prevState == getState(c)
        c1 == IF questionSlug \notin prevState.solvedSlugs
              THEN LET newSlugs    == prevState.solvedSlugs \cup {questionSlug}
                       length      == Cardinality(prevState.solvedSlugs) + 1
                       dailySolved == IF prevState.requireDaily
                                         /\ prevState.dailySlug = questionSlug
                                      THEN TRUE ELSE prevState.dailySolved
                       cw == setState(c, [solvesToday |-> length,
                                          solvedSlugs |-> newSlugs,
                                          dailySolved |-> dailySolved])
                   IN  checkAndHandleGoalMet(cw, prevState)
              ELSE c
        c2 == evaluateBlocking(c1)
    IN  createAlarm(c2, ALARM_VERIFY_SOLVE, c2.now + VERIFY_DELAY_MS)

\* ------------------------------------------------------------ remote client
\* recentAcSubmissionList as the server returns it: entries with the UTC day of
\* their timestamp.  A response is the list, an authentication rejection
\* (HTTP 401/403) or a failure (network error, unparsable body).

Entry(s, d) == [titleSlug |-> s, day |-> d]

RemoteLists(t) ==
    { {},
      {Entry("b", todayUTC(t))},
      {Entry("b", todayUTC(t)), Entry("c", todayUTC(t))},
      {Entry("b", todayUTC(t)), Entry("a", yesterdayUTC(t))} }

Responses(t) ==
    {[kind |-> "auth", list |-> {}], [kind |-> "neterr", list |-> {}]}
        \cup {[kind |-> "ok", list |-> L] : L \in RemoteLists(t)}

fetchTodaySolves(resp, t) ==
    IF resp.kind = "auth" THEN [count |-> 0, slugs |-> {}, loggedIn |-> FALSE]
    ELSE IF resp.kind = "neterr" THEN [count |-> 0, slugs |-> {}, loggedIn |-> FALSE]
    ELSE LET todaySolves == {s \in resp.list : s.day = todayUTC(t)}
             slugSet     == {s.titleSlug : s \in todaySolves}
         IN  [count |-> Cardinality(slugSet), slugs |-> slugSet, loggedIn |-> TRUE]

\* The featured challenge is one problem per UTC day.
DailySchedule == <<"a", "b", "c">>

DailyResponses == {"ok", "fail"}

NoDaily == [slug |-> NullStr, title |-> NullStr, link |-> NullStr]

fetchDailyChallenge(dresp, t) ==
    IF dresp = "fail" THEN NoDaily
    ELSE LET slug == DailySchedule[(todayUTC(t) % Len(DailySchedule)) + 1]
         IN  [slug |-> slug, title |-> slug, link |-> slug]

\* ------------------------------------------------------------- rate limiter

\* canPollNow with no cooldown.
canPollNow_Always(c) == c.now - c.store.lastPollTimestamp >= 0

canPollNow(c) == c.now - c.store.lastPollTimestamp >= MIN_POLL_INTERVAL_MS

stampPollTime(c) == setState(c, [lastPollTimestamp |-> c.now])

\* ---------------------------------------------------------------- lazy poll

storeDaily(c, daily) ==
    IF daily # NoDaily
    THEN setState(c, [dailySlug |-> daily.slug, dailyTitle |-> daily.title,
                      dailyLink |-> daily.link])
    ELSE c

\* lazyPollIfNeeded gated by the cooldown alone.
lazyPollIfNeeded_CooldownOnly(c, dresp, resp) ==
    LET state == getState(c) IN
    IF state.leetcodeUsername = "" THEN c
    ELSE IF ~canPollNow(c) THEN c
         ELSE LET c1 == stampPollTime(c)
                  daily == fetchDailyChallenge(dresp, c.now)
                  c2 == [storeDaily(c1, daily) EXCEPT !.fx.dailyFetches = @ + 1]
                  updatedState == getState(c2)
                  r  == fetchTodaySolves(resp, c.now)
                  dailySolved == IF updatedState.dailySlug # NullStr
                                 THEN updatedState.dailySlug \in r.slugs ELSE FALSE
                  c3 == setState(c2, [solvesToday  |-> r.count,
                                      solvedSlugs  |-> r.slugs,
                                      lastPollDate |-> todayUTC(c.now),
                                      loggedIn     |-> IF r.loggedIn THEN "true" ELSE "false"])
                  c4 == IF updatedState.dailySlug # NullStr
                        THEN setState(c3, [dailySolved |-> dailySolved]) ELSE c3
              IN  evaluateBlocking([c4 EXCEPT !.fx.fetches = @ + 1, !.fx.kind = resp.kind, !.fx.res = r])

lazyPollIfNeeded(c, dresp, resp) ==
    LET state == getState(c) IN
    IF state.leetcodeUsername = "" THEN c
    ELSE LET newDay         == state.lastPollDate # todayUTC(c.now)
             cooldownPassed == canPollNow(c)
         IN
         IF ~newDay /\ ~cooldownPassed THEN c
         ELSE LET c1 == stampPollTime(c)
                  daily == fetchDailyChallenge(dresp, c.now)
                  c2 == [storeDaily(c1, daily) EXCEPT !.fx.dailyFetches = @ + 1]
                  updatedState == getState(c2)
                  r  == fetchTodaySolves(resp, c.now)
                  dailySolved == IF updatedState.dailySlug # NullStr
                                 THEN updatedState.dailySlug \in r.slugs ELSE FALSE
                  c3 == setState(c2, [solvesToday  |-> r.count,
                                      solvedSlugs  |-> r.slugs,
                                      lastPollDate |-> todayUTC(c.now),
                                      loggedIn     |-> IF r.loggedIn THEN "true" ELSE "false"])
                  c4 == IF updatedState.dailySlug # NullStr
                        THEN setState(c3, [dailySolved |-> dailySolved]) ELSE c3
              IN  evaluateBlocking([c4 EXCEPT !.fx.fetches = @ + 1, !.fx.kind = resp.kind, !.fx.res = r])

\* ------------------------------------------------------------ verification

\* verifySolveCount storing the remote answer over the local record.
verifySolveCount_Overwrite(c, resp) ==
    LET state == getState(c) IN
    IF state.leetcodeUsername = "" THEN c
    ELSE IF ~canPollNow(c) THEN c
    ELSE LET c1 == stampPollTime(c)
             r  == fetchTodaySolves(resp, c.now)
             c2 == [c1 EXCEPT !.fx.fetches = @ + 1, !.fx.kind = resp.kind, !.fx.res = r]
         IN  IF ~r.loggedIn THEN c2
             ELSE LET dailySolved == IF state.dailySlug # NullStr
                                     THEN state.dailySlug \in r.slugs
                                     ELSE state.dailySolved
                  IN  evaluateBlocking(
                          setState(c2, [solvesToday  |-> r.count,
                                        solvedSlugs  |-> r.slugs,
                                        lastPollDate |-> todayUTC(c.now),
                                        loggedIn     |-> "true",
                                        dailySolved  |-> dailySolved]))

\* verifySolveCount taking the remote count for solvesToday.
verifySolveCount_RemoteCount(c, resp) ==
    LET state == getState(c) IN
    IF state.leetcodeUsername = "" THEN c
    ELSE IF ~canPollNow(c) THEN c
    ELSE LET c1 == stampPollTime(c)
             r  == fetchTodaySolves(resp, c.now)
             c2 == [c1 EXCEPT !.fx.fetches = @ + 1, !.fx.kind = resp.kind, !.fx.res = r]
         IN  IF ~r.loggedIn THEN c2
             ELSE LET mergedSet   == r.slugs \cup state.solvedSlugs
                      dailySolved == IF state.dailySlug # NullStr
                                     THEN state.dailySlug \in mergedSet
                                     ELSE state.dailySolved
                  IN  evaluateBlocking(
                          setState(c2, [solvesToday  |-> r.count,
                                        solvedSlugs  |-> mergedSet,
                                        lastPollDate |-> todayUTC(c.now),
                                        loggedIn     |-> "true",
                                        dailySolved  |-> dailySolved]))

\* verifySolveCount without the rate limit.
verifySolveCount_Ungated(c, resp) ==
    LET state == getState(c) IN
    IF state.leetcodeUsername = "" THEN c
    ELSE LET c1 == stampPollTime(c)
             r  == fetchTodaySolves(resp, c.now)
             c2 == [c1 EXCEPT !.fx.fetches = @ + 1, !.fx.kind = resp.kind, !.fx.res = r]
         IN  IF ~r.loggedIn THEN c2
             ELSE LET mergedSet   == r.slugs \cup state.solvedSlugs
                      trueCount   == Max(r.count, Cardinality(mergedSet))
                      dailySolved == IF state.dailySlug # NullStr
                                     THEN state.dailySlug \in mergedSet
                                     ELSE state.dailySolved
                  IN  evaluateBlocking(
                          setState(c2, [solvesToday  |-> trueCount,
                                        solvedSlugs  |-> mergedSet,
                                        lastPollDate |-> todayUTC(c.now),
                                        loggedIn     |-> "true",
                                        dailySolved  |-> dailySolved]))

verifySolveCount(c, resp) ==
    LET state == getState(c) IN
    IF state.leetcodeUsername = "" THEN c
    ELSE IF ~canPollNow(c) THEN c
    ELSE LET c1 == stampPollTime(c)
             r  == fetchTodaySolves(resp, c.now)
             c2 == [c1 EXCEPT !.fx.fetches = @ + 1, !.fx.kind = resp.kind, !.fx.res = r]
         IN  IF ~r.loggedIn THEN c2
             ELSE LET mergedSet   == r.slugs \cup state.solvedSlugs
                      trueCount   == Max(r.count, Cardinality(mergedSet))
                      dailySolved == IF state.dailySlug # NullStr
                                     THEN state.dailySlug \in mergedSet
                                     ELSE state.dailySolved
                  IN  evaluateBlocking(
                          setState(c2, [solvesToday  |-> trueCount,
                                        solvedSlugs  |-> mergedSet,
                                        lastPollDate |-> todayUTC(c.now),
                                        loggedIn     |-> "true",
                                        dailySolved  |-> dailySolved]))

\* --------------------------------------------------------------- force sync

\* forceSync not asking for an account.
forceSync_NoAccount(c, dresp, resp) ==
    LET state == getState(c) IN
    IF c.now - state.lastPollTimestamp < FORCE_SYNC_DEDUP_MS THEN c
    ELSE LET c1 == stampPollTime(c)
             daily == fetchDailyChallenge(dresp, c.now)
             c2 == [storeDaily(c1, daily) EXCEPT !.fx.dailyFetches = @ + 1]
             updated == getState(c2)
             r  == fetchTodaySolves(resp, c.now)
             c3 == [c2 EXCEPT !.fx.fetches = @ + 1, !.fx.kind = resp.kind, !.fx.res = r]
             c4 == IF r.loggedIn
                   THEN LET dailySolved == IF updated.dailySlug # NullStr
                                           THEN updated.dailySlug \in r.slugs ELSE FALSE
                        IN  setState(c3, [solvesToday  |-> r.count,
                                          solvedSlugs  |-> r.slugs,
                                          lastPollDate |-> todayUTC(c.now),
                                          loggedIn     |-> "true",
                                          dailySolved  |-> dailySolved])
                   ELSE c3
         IN  evaluateBlocking(c4)

\* forceSync held back by the background cooldown.
forceSync_BackgroundGate(c, dresp, resp) ==
    LET state == getState(c) IN
    IF state.leetcodeUsername = "" THEN c
    ELSE IF ~canPollNow(c) THEN c
    ELSE LET c1 == stampPollTime(c)
             daily == fetchDailyChallenge(dresp, c.now)
             c2 == [storeDaily(c1, daily) EXCEPT !.fx.dailyFetches = @ + 1]
             updated == getState(c2)
             r  == fetchTodaySolves(resp, c.now)
             c3 == [c2 EXCEPT !.fx.fetches = @ + 1, !.fx.kind = resp.kind, !.fx.res = r]
             c4 == IF r.loggedIn
                   THEN LET dailySolved == IF updated.dailySlug # NullStr
                                           THEN updated.dailySlug \in r.slugs ELSE FALSE
                        IN  setState(c3, [solvesToday  |-> r.count,
                                          solvedSlugs  |-> r.slugs,
                                          lastPollDate |-> todayUTC(c.now),
                                          loggedIn     |-> "true",
                                          dailySolved  |-> dailySolved])
                   ELSE c3
         IN  evaluateBlocking(c4)

forceSync(c, dresp, resp) ==
    LET state == getState(c) IN
    IF state.leetcodeUsername = "" THEN c
    ELSE IF c.now - state.lastPollTimestamp < FORCE_SYNC_DEDUP_MS THEN c
    ELSE LET c1 == stampPollTime(c)
             daily == fetchDailyChallenge(dresp, c.now)
             c2 == [storeDaily(c1, daily) EXCEPT !.fx.dailyFetches = @ + 1]
             updated == getState(c2)
             r  == fetchTodaySolves(resp, c.now)
             c3 == [c2 EXCEPT !.fx.fetches = @ + 1, !.fx.kind = resp.kind, !.fx.res = r]
             c4 == IF r.loggedIn
                   THEN LET dailySolved == IF updated.dailySlug # NullStr
                                           THEN updated.dailySlug \in r.slugs ELSE FALSE
                        IN  setState(c3, [solvesToday  |-> r.count,
                                          solvedSlugs  |-> r.slugs,
                                          lastPollDate |-> todayUTC(c.now),
                                          loggedIn     |-> "true",
                                          dailySolved  |-> dailySolved])
                   ELSE c3
         IN  evaluateBlocking(c4)

\* ------------------------------------------------------------------- bypass

\* activateBypass granting the bypass whether or not one was used.
activateBypass_Unlimited(c) ==
    LET expiresAt == c.now + BYPASS_DURATION_MS
        c1 == setState(c, [bypassUsed |-> TRUE, bypassExpiresAt |-> expiresAt])
        c2 == createAlarm(c1, ALARM_BYPASS_EXPIRY, expiresAt)
    IN  [c2 EXCEPT !.fx.response = "success"]

\* activateBypass storing the expiry without marking the bypass as used.
activateBypass_NotMarked(c) ==
    LET state == getState(c) IN
    IF state.bypassUsed THEN [c EXCEPT !.fx.response = "Already used today"]
    ELSE LET expiresAt == c.now + BYPASS_DURATION_MS
             c1 == setState(c, [bypassExpiresAt |-> expiresAt])
             c2 == createAlarm(c1, ALARM_BYPASS_EXPIRY, expiresAt)
         IN  [c2 EXCEPT !.fx.response = "success"]

activateBypass(c) ==
    LET state == getState(c) IN
    IF state.bypassUsed THEN [c EXCEPT !.fx.response = "Already used today"]
    ELSE LET expiresAt == c.now + BYPASS_DURATION_MS
             c1 == setState(c, [bypassUsed |-> TRUE, bypassExpiresAt |-> expiresAt])
             c2 == createAlarm(c1, ALARM_BYPASS_EXPIRY, expiresAt)
         IN  [c2 EXCEPT !.fx.response = "success"]

\* -------------------------------------------------------------- daily reset

\* resetDailyState zeroing the current streak with the daily fields.
resetDailyState_AndStreak(c) ==
    setState(c, [solvesToday     |-> 0,
                 dailySolved     |-> FALSE,
                 bypassUsed      |-> FALSE,
                 bypassExpiresAt |-> Null,
                 rewardExpiresAt |-> Null,
                 lastPollDate    |-> Null,
                 solvedSlugs     |-> {},
                 dailySlug       |-> NullStr,
                 dailyTitle      |-> NullStr,
                 dailyLink       |-> NullStr,
                 currentStreak   |-> 0])

\* resetDailyState leaving a running bypass in place.
resetDailyState_KeepBypass(c) ==
    setState(c, [solvesToday     |-> 0,
                 dailySolved     |-> FALSE,
                 bypassUsed      |-> FALSE,
                 rewardExpiresAt |-> Null,
                 lastPollDate    |-> Null,
                 solvedSlugs     |-> {},
                 dailySlug       |-> NullStr,
                 dailyTitle      |-> NullStr,
                 dailyLink       |-> NullStr])

resetDailyState(c) ==
    setState(c, [solvesToday     |-> 0,
                 dailySolved     |-> FALSE,
                 bypassUsed      |-> FALSE,
                 bypassExpiresAt |-> Null,
                 rewardExpiresAt |-> Null,
                 lastPollDate    |-> Null,
                 solvedSlugs     |-> {},
                 dailySlug       |-> NullStr,
                 dailyTitle      |-> NullStr,
                 dailyLink       |-> NullStr])

scheduleDailyResetAlarm(c) == createAlarm(c, ALARM_DAILY_RESET, nextUTCMidnight(c.now))

onDailyResetAlarm(c, dresp) ==
    LET c1 == resetDailyState(c)
        state == getState(c1)
        c2 == IF state.leetcodeUsername # ""
              THEN [storeDaily(c1, fetchDailyChallenge(dresp, c.now))
                        EXCEPT !.fx.dailyFetches = @ + 1]
              ELSE c1
    IN  evaluateBlocking(c2)

\* The expiry handler without the re-evaluation of the focused tab.
onBypassExpiryAlarm_NoEvaluate(c) == setState(c, [bypassExpiresAt |-> Null])

onBypassExpiryAlarm(c) == evaluateBlocking(setState(c, [bypassExpiresAt |-> Null]))

\* ----------------------------------------------------------------- startup

onStartup(c, dresp, resp) ==
    evaluateBlocking(lazyPollIfNeeded(scheduleDailyResetAlarm(c), dresp, resp))

\* ------------------------------------------------------------------ actions

Commit(c, op) ==
    \E r \in {c} :
        /\ store'  = r.store
        /\ tab'    = r.tab
        /\ alarms' = r.alarms
        /\ last'   = [op EXCEPT !.fx = r.fx]
        /\ now'    = now
        /\ tasks'  = tasks

Here == Ctx(store, tab, alarms, now)

Due(name) == alarms[name] # Null /\ alarms[name] <= now

\* The remote answers only the requests a handler sends: the answers are
\* enumerated when the handler, run on the current state, sends the request.
NoAnswer == [kind |-> "neterr", list |-> {}]

Answers(sent) == IF sent THEN Responses(now) ELSE {NoAnswer}

DailyAnswers(sent) == IF sent THEN DailyResponses ELSE {"fail"}

Init ==
    /\ store  = DEFAULTS
    /\ tab    = NEWTAB
    /\ alarms = [NoAlarms EXCEPT !.dailyReset = nextUTCMidnight(FirstDay * MS_PER_DAY)]
    /\ now    = FirstDay * MS_PER_DAY
    /\ burst  = 0
    /\ lastUserSync = Null
    /\ last   = NoOp
    /\ tasks  = NoTasks

\* Time passes to an instant of T; nothing runs.  The browser fires a due alarm
\* as soon as the worker can run, so time does not move on over one; an alarm
\* is late by the length of the jump that passed it (the machine was asleep).
Tick(T) ==
    \E t \in T :
        /\ t > now
        /\ \A name \in DOMAIN alarms : ~Due(name)
        /\ now' = t
        /\ last' = [NoOp EXCEPT !.op = "tick"]
        /\ lastUserSync' = IF lastUserSync # Null /\ t - lastUserSync < FORCE_SYNC_DEDUP_MS
                           THEN lastUserSync ELSE Null
        /\ UNCHANGED <<store, tab, alarms, burst, tasks>>

\* chrome.tabs.onUpdated (status complete) / onActivated for the focused tab.
Navigate(U) ==
    \E url \in U :
        /\ Commit(evaluateTab([Here EXCEPT !.tab = url], url),
                  [NoOp EXCEPT !.op = "navigate", !.url = url])
        /\ UNCHANGED <<burst, lastUserSync>>

\* onMessage SOLVE_DETECTED.  burst counts the events since the verify alarm
\* last fired: 0, 1, or 2 for two or more; metToday records that the goal had
\* already been met on this UTC day when the event arrived.
SolveDetected ==
    \E slug \in SensorSlugs :
        /\ Commit(sendResponse(handleSolveDetected(Here, slug), "ok"),
                  [NoOp EXCEPT !.op = "solve", !.slug = slug,
                               !.dup = (slug \in store.solvedSlugs),
                               !.metToday = (store.lastGoalMetDate = todayUTC(now))])
        /\ burst' = IF burst = 0 THEN 1 ELSE 2
        /\ UNCHANGED lastUserSync

\* onAlarm verifyAfterSolve (one-shot: the browser removes it when it fires).
AlarmVerify ==
    /\ Due(ALARM_VERIFY_SOLVE)
    /\ \E resp \in Answers(verifySolveCount(Here, NoAnswer).fx.fetches > 0) :
          Commit(verifySolveCount(createAlarm(Here, ALARM_VERIFY_SOLVE, Null), resp),
                 [NoOp EXCEPT !.op = "verify", !.burst = burst, !.pre = Pre(store, now)])
    /\ burst' = 0
    /\ UNCHANGED lastUserSync

\* onAlarm dailyReset (periodic: the browser re-arms it one period later).
AlarmDailyReset ==
    /\ Due(ALARM_DAILY_RESET)
    /\ \E dresp \in DailyAnswers(onDailyResetAlarm(Here, "fail").fx.dailyFetches > 0) :
          Commit(onDailyResetAlarm(
                     createAlarm(Here, ALARM_DAILY_RESET, now + MS_PER_DAY), dresp),
                 [NoOp EXCEPT !.op = "reset"])
    /\ UNCHANGED <<burst, lastUserSync>>

\* onAlarm bypassExpiry (one-shot).
AlarmBypassExpiry ==
    /\ Due(ALARM_BYPASS_EXPIRY)
    /\ Commit(onBypassExpiryAlarm(createAlarm(Here, ALARM_BYPASS_EXPIRY, Null)),
              [NoOp EXCEPT !.op = "expiry"])
    /\ UNCHANGED <<burst, lastUserSync>>

\* onMessage ACTIVATE_BYPASS.
ActivateBypass ==
    /\ LET r == activateBypass(Here)
       IN  Commit(sendResponse(r, r.fx.response), [NoOp EXCEPT !.op = "bypass"])
    /\ UNCHANGED <<burst, lastUserSync>>

\* onMessage GET_STATE: respond, then poll in the background if configured.
GetState ==
    /\ LET sent == store.leetcodeUsername # ""
                    /\ lazyPollIfNeeded(Here, "fail", NoAnswer).fx.fetches > 0
       IN
       \E dresp \in DailyAnswers(sent), resp \in Answers(sent) :
          Commit(IF store.leetcodeUsername # ""
                 THEN lazyPollIfNeeded(sendResponse(Here, "state"), dresp, resp)
                 ELSE sendResponse(Here, "state"),
                 [NoOp EXCEPT !.op = "getstate", !.pre = Pre(store, now)])
    /\ UNCHANGED <<burst, lastUserSync>>

\* The popup's settings panel writes the four settings to the store.  It
\* then sends SETTINGS_UPDATED, which the worker handles when it is delivered.
SaveSettings(Notify) ==
    /\ \E goal \in GoalChoices, req \in BOOLEAN, notify \in Notify :
          Commit(setState(Here, [leetcodeUsername |-> USER,
                                 dailyGoal        |-> goal,
                                 requireDaily     |-> req,
                                 notifyOnComplete |-> notify]),
                 [NoOp EXCEPT !.op = "save"])
    /\ UNCHANGED <<burst, lastUserSync>>

\* The popup's first-run panel stores the username alone; the other settings
\* keep their defaults.  It then sends SETTINGS_UPDATED.
SetupSave ==
    /\ store.leetcodeUsername = ""
    /\ Commit(setState(Here, [leetcodeUsername |-> USER]), [NoOp EXCEPT !.op = "setup"])
    /\ UNCHANGED <<burst, lastUserSync>>

\* SETTINGS_UPDATED polling without clearing the stamp first.
SettingsUpdated_NoClear ==
    /\ store.leetcodeUsername # ""
    /\ LET sent == lazyPollIfNeeded(Here, "fail", NoAnswer).fx.fetches > 0
       IN
       \E dresp \in DailyAnswers(sent), resp \in Answers(sent) :
          Commit(sendResponse(lazyPollIfNeeded(Here, dresp, resp), "ok"),
                 [NoOp EXCEPT !.op = "settings", !.pre = Pre(store, now)])
    /\ UNCHANGED <<burst, lastUserSync>>

\* onMessage SETTINGS_UPDATED (sent by the popup after a save, so an account
\* is configured).
SettingsUpdated ==
    /\ store.leetcodeUsername # ""
    /\ LET c1 == setState(Here, [lastPollTimestamp |-> 0])
           sent == lazyPollIfNeeded(c1, "fail", NoAnswer).fx.fetches > 0
       IN
       \E dresp \in DailyAnswers(sent), resp \in Answers(sent) :
          Commit(sendResponse(lazyPollIfNeeded(c1, dresp, resp), "ok"),
                 [NoOp EXCEPT !.op = "settings", !.pre = Pre(store, now)])
    /\ UNCHANGED <<burst, lastUserSync>>

\* onMessage FORCE_SYNC.
ForceSync ==
    /\ LET sent == forceSync(Here, "fail", NoAnswer).fx.fetches > 0 IN
       /\ \E dresp \in DailyAnswers(sent), resp \in Answers(sent) :
             Commit(sendResponse(forceSync(Here, dresp, resp), "ok"),
                    [NoOp EXCEPT !.op = "force", !.pre = Pre(store, now)])
       /\ lastUserSync' = IF sent THEN now ELSE lastUserSync
    /\ UNCHANGED burst

\* chrome.runtime.onStartup / onInstalled.
Startup ==
    /\ LET sent == onStartup(Here, "fail", NoAnswer).fx.fetches > 0 IN
       \E dresp \in DailyAnswers(sent), resp \in Answers(sent) :
          Commit(onStartup(Here, dresp, resp), [NoOp EXCEPT !.op = "startup", !.pre = Pre(store, now)])
    /\ UNCHANGED <<burst, lastUserSync>>

\* ------------------------------------------------------- interleaved runs
\* The same handlers taken one await at a time.  A run is suspended at every
\* await of a storage read, a storage write or a network call; between two of
\* its steps any other run may take steps and time may pass.  A storage read
\* returns the whole store as it is at that step, a write merges its keys into
\* the store at that step; the run computes what it writes when it resumes
\* from the read, so a write carries values of the state read before it.  The
\* closing steps of a handler that touch neither the progress, the streak,
\* the bypass nor the stamp (notification, policy evaluation, alarm calls,
\* sendResponse) are taken together as its last step.

\* The run suspended in slot i takes a step: it becomes task, the world
\* becomes c, and op records the step.
Resume(i, task, c, op) ==
    /\ store'  = c.store
    /\ tab'    = c.tab
    /\ alarms' = c.alarms
    /\ last'   = [op EXCEPT !.fx = c.fx]
    /\ tasks'  = [tasks EXCEPT ![i] = task]
    /\ UNCHANGED <<now, lastUserSync>>

\* A new run takes the first free slot.
Free(i) ==
    /\ tasks[i].kind = "idle"
    /\ \A j \in TaskIds : tasks[j].kind = "idle" => i = "t1" \/ j # "t1"

At(i, kind, pc) == tasks[i].kind = kind /\ tasks[i].pc = pc

\* The keys ks of the state st, as the partial a setState call passes.
Partial(st, ks) == [k \in ks |-> st[k]]

\* handleSolveDetected: prevState = await getState().
SolveRead(i) ==
    \E slug \in SensorSlugs :
        /\ Free(i)
        /\ Resume(i, [Idle EXCEPT !.kind = "solve", !.slug = slug, !.state = store,
                                  !.pc = IF slug \notin store.solvedSlugs
                                         THEN "write" ELSE "finish"],
                  Here, [NoOp EXCEPT !.op = "await"])
        /\ UNCHANGED burst

\* handleSolveDetected: await setState({solvesToday, solvedSlugs, dailySolved}),
\* the values computed from prevState.
SolveWrite(i) ==
    /\ At(i, "solve", "write")
    /\ LET prevState == tasks[i].state
           newSlugs  == prevState.solvedSlugs \cup {tasks[i].slug}
           dailySolved == IF prevState.requireDaily
                             /\ prevState.dailySlug = tasks[i].slug
                          THEN TRUE ELSE prevState.dailySolved
       IN  Resume(i, [tasks[i] EXCEPT !.pc = "check"],
                  setState(Here, [solvesToday |-> Cardinality(prevState.solvedSlugs) + 1,
                                  solvedSlugs |-> newSlugs,
                                  dailySolved |-> dailySolved]),
                  [NoOp EXCEPT !.op = "await"])
    /\ UNCHANGED burst

\* checkAndHandleGoalMet(prevState): state = await getState(), then the test
\* of the transition.
SolveCheck(i) ==
    /\ At(i, "solve", "check")
    /\ LET fired == ~goalMet(tasks[i].state) /\ goalMet(store)
       IN  Resume(i, [tasks[i] EXCEPT !.fired = fired,
                                      !.pc = IF fired THEN "streak" ELSE "finish"],
                  Here, [NoOp EXCEPT !.op = "await"])
    /\ UNCHANGED burst

\* updateStreak: state = await getState(), today = todayUTC(), the same-day
\* guard.
SolveStreakRead(i) ==
    /\ At(i, "solve", "streak")
    /\ LET wrote == updateStreak(Here).store # store
       IN  Resume(i, [tasks[i] EXCEPT !.state = store, !.t = now,
                                      !.pc = IF wrote THEN "streakWrite" ELSE "finish"],
                  Here, [NoOp EXCEPT !.op = "await"])
    /\ UNCHANGED burst

\* updateStreak: await setState({currentStreak, longestStreak,
\* lastGoalMetDate}), the values computed from the state read by updateStreak.
SolveStreakWrite(i) ==
    /\ At(i, "solve", "streakWrite")
    /\ LET u == updateStreak(Ctx(tasks[i].state, tab, alarms, tasks[i].t)).store
       IN  Resume(i, [tasks[i] EXCEPT !.pc = "finish"],
                  setState(Here, Partial(u, {"currentStreak", "longestStreak",
                                             "lastGoalMetDate"})),
                  [NoOp EXCEPT !.op = "await"])
    /\ UNCHANGED burst

\* The rest of handleSolveDetected: notifyGoalMet if the transition was seen,
\* evaluateBlocking, the verify alarm, sendResponse.
SolveFinish(i) ==
    /\ At(i, "solve", "finish")
    /\ LET c1 == IF tasks[i].fired
                 THEN notifyGoalMet([Here EXCEPT !.fx.goalMetFired = TRUE])
                 ELSE Here
           c2 == evaluateBlocking(c1)
           c3 == createAlarm(c2, ALARM_VERIFY_SOLVE, now + VERIFY_DELAY_MS)
       IN  Resume(i, Idle, sendResponse(c3, "ok"),
                  [NoOp EXCEPT !.op = "solve", !.slug = tasks[i].slug])
    /\ burst' = IF burst = 0 THEN 1 ELSE 2

\* activateBypass: state = await getState(); a used bypass is refused at
\* once, otherwise expiresAt = Date.now() + 3 h and the write is issued.
BypassRead(i) ==
    /\ Free(i)
    /\ IF store.bypassUsed
       THEN Resume(i, Idle, sendResponse(activateBypass(Here), "Already used today"),
                   [NoOp EXCEPT !.op = "bypass"])
       ELSE Resume(i, [Idle EXCEPT !.kind = "bypass", !.pc = "write",
                                   !.state = store, !.t = now],
                   Here, [NoOp EXCEPT !.op = "await"])
    /\ UNCHANGED burst

\* activateBypass: await setState({bypassUsed, bypassExpiresAt}), the expiry
\* alarm, and the answer {success: true, expiresAt}.
BypassWrite(i) ==
    /\ At(i, "bypass", "write")
    /\ LET r  == activateBypass(Ctx(tasks[i].state, tab, alarms, tasks[i].t))
           c1 == setState(Here, Partial(r.store, {"bypassUsed", "bypassExpiresAt"}))
           c2 == createAlarm(c1, ALARM_BYPASS_EXPIRY, r.alarms[ALARM_BYPASS_EXPIRY])
       IN  Resume(i, Idle, sendResponse(c2, r.fx.response),
                  [NoOp EXCEPT !.op = "bypass"])
    /\ UNCHANGED burst

\* onAlarm verifyAfterSolve, verifySolveCount: state = await getState() and
\* the username test.
VerifyRead(i) ==
    /\ Due(ALARM_VERIFY_SOLVE)
    /\ Free(i)
    /\ LET c == createAlarm(Here, ALARM_VERIFY_SOLVE, Null)
       IN  IF store.leetcodeUsername = ""
           THEN Resume(i, Idle, c, [NoOp EXCEPT !.op = "verify", !.burst = burst])
           ELSE Resume(i, [Idle EXCEPT !.kind = "verify", !.pc = "gate",
                                       !.state = store],
                       c, [NoOp EXCEPT !.op = "await"])
    /\ burst' = 0

\* verifySolveCount: await canPollNow().
VerifyGate(i) ==
    /\ At(i, "verify", "gate")
    /\ IF canPollNow(Here)
       THEN Resume(i, [tasks[i] EXCEPT !.pc = "stamp"], Here, [NoOp EXCEPT !.op = "await"])
       ELSE Resume(i, Idle, Here, [NoOp EXCEPT !.op = "verify", !.pre = Pre(store, now)])
    /\ UNCHANGED burst

\* verifySolveCount: await stampPollTime(), then fetchTodaySolves is called.
VerifyStamp(i) ==
    /\ At(i, "verify", "stamp")
    /\ Resume(i, [tasks[i] EXCEPT !.pc = "fetching", !.t = now],
              stampPollTime(Here), [NoOp EXCEPT !.op = "await"])
    /\ UNCHANGED burst

\* verifySolveCount: the answer of fetchTodaySolves arrives; when logged in,
\* the merge with the state read at the start is written and the policy
\* evaluated.
VerifyResponse(i) ==
    /\ At(i, "verify", "fetching")
    /\ \E resp \in Responses(now) :
          LET state == tasks[i].state
              r  == fetchTodaySolves(resp, now)
              c1 == [Here EXCEPT !.fx.fetches = 1, !.fx.kind = resp.kind, !.fx.res = r]
              mergedSet   == r.slugs \cup state.solvedSlugs
              trueCount   == Max(r.count, Cardinality(mergedSet))
              dailySolved == IF state.dailySlug # NullStr
                             THEN state.dailySlug \in mergedSet
                             ELSE state.dailySolved
              c2 == IF ~r.loggedIn THEN c1
                    ELSE evaluateBlocking(
                             setState(c1, [solvesToday  |-> trueCount,
                                           solvedSlugs  |-> mergedSet,
                                           lastPollDate |-> todayUTC(now),
                                           loggedIn     |-> "true",
                                           dailySolved  |-> dailySolved]))
          IN  Resume(i, Idle, c2, [NoOp EXCEPT !.op = "verify"])
    /\ UNCHANGED burst

\* onMessage GET_STATE: the state is sent back; with an account,
\* lazyPollIfNeeded starts: state = await getState(), newDay.
PollRead(i) ==
    /\ Free(i)
    /\ IF store.leetcodeUsername = ""
       THEN Resume(i, Idle, sendResponse(Here, "state"), [NoOp EXCEPT !.op = "getstate"])
       ELSE Resume(i, [Idle EXCEPT !.kind = "poll", !.pc = "gate",
                                   !.state = store, !.t = now],
                   sendResponse(Here, "state"), [NoOp EXCEPT !.op = "await"])
    /\ UNCHANGED burst

\* lazyPollIfNeeded: cooldownPassed = await canPollNow(), then the gate.
PollGate(i) ==
    /\ At(i, "poll", "gate")
    /\ LET newDay == tasks[i].state.lastPollDate # todayUTC(tasks[i].t)
           cooldownPassed == canPollNow(Here)
       IN  IF ~newDay /\ ~cooldownPassed
           THEN Resume(i, Idle, Here, [NoOp EXCEPT !.op = "getstate"])
           ELSE Resume(i, [tasks[i] EXCEPT !.pc = "stamp"], Here,
                       [NoOp EXCEPT !.op = "await"])
    /\ UNCHANGED burst

\* lazyPollIfNeeded: await stampPollTime(), then fetchDailyChallenge is
\* called.
PollStamp(i) ==
    /\ At(i, "poll", "stamp")
    /\ Resume(i, [tasks[i] EXCEPT !.pc = "daily"], stampPollTime(Here),
              [NoOp EXCEPT !.op = "await"])
    /\ UNCHANGED burst

\* lazyPollIfNeeded: the featured challenge arrives and is stored,
\* updatedState = await getState(), then fetchTodaySolves is called.
PollDaily(i) ==
    /\ At(i, "poll", "daily")
    /\ \E dresp \in DailyResponses :
          LET c1 == storeDaily(Here, fetchDailyChallenge(dresp, now))
          IN  Resume(i, [tasks[i] EXCEPT !.pc = "fetching", !.state = c1.store,
                                         !.t = now],
                     c1, [NoOp EXCEPT !.op = "await"])
    /\ UNCHANGED burst

\* lazyPollIfNeeded: the answer of fetchTodaySolves arrives, is written over
\* the day's progress, and the policy is evaluated.
PollResponse(i) ==
    /\ At(i, "poll", "fetching")
    /\ \E resp \in Responses(now) :
          LET updatedState == tasks[i].state
              r  == fetchTodaySolves(resp, now)
              c1 == [Here EXCEPT !.fx.fetches = 1, !.fx.dailyFetches = 1,
                                 !.fx.kind = resp.kind, !.fx.res = r]
              c2 == setState(c1, [solvesToday  |-> r.count,
                                  solvedSlugs  |-> r.slugs,
                                  lastPollDate |-> todayUTC(now),
                                  loggedIn     |-> IF r.loggedIn THEN "true" ELSE "false"])
              c3 == IF updatedState.dailySlug # NullStr
                    THEN setState(c2, [dailySolved |-> updatedState.dailySlug \in r.slugs])
                    ELSE c2
          IN  Resume(i, Idle, evaluateBlocking(c3), [NoOp EXCEPT !.op = "getstate"])
    /\ UNCHANGED burst

\* onMessage FORCE_SYNC, forceSync: state = await getState() and the username
\* test.
ForceRead(i) ==
    /\ Free(i)
    /\ IF store.leetcodeUsername = ""
       THEN Resume(i, Idle, sendResponse(Here, "ok"), [NoOp EXCEPT !.op = "force"])
       ELSE Resume(i, [Idle EXCEPT !.kind = "force", !.pc = "gate", !.state = store],
                   Here, [NoOp EXCEPT !.op = "await"])
    /\ UNCHANGED burst

\* forceSync: await storage.get('lastPollTimestamp') and the 10-second window.
ForceGate(i) ==
    /\ At(i, "force", "gate")
    /\ IF now - store.lastPollTimestamp < FORCE_SYNC_DEDUP_MS
       THEN Resume(i, Idle, sendResponse(Here, "ok"), [NoOp EXCEPT !.op = "force"])
       ELSE Resume(i, [tasks[i] EXCEPT !.pc = "stamp"], Here, [NoOp EXCEPT !.op = "await"])
    /\ UNCHANGED burst

\* forceSync: await stampPollTime(), then fetchDailyChallenge is called.
ForceStamp(i) ==
    /\ At(i, "force", "stamp")
    /\ store' = stampPollTime(Here).store
    /\ tasks' = [tasks EXCEPT ![i].pc = "daily"]
    /\ last' = [NoOp EXCEPT !.op = "await"]
    /\ lastUserSync' = now
    /\ UNCHANGED <<tab, alarms, now, burst>>

\* forceSync: the answer of fetchDailyChallenge arrives and is stored,
\* updated = await getState(), then fetchTodaySolves is called.
ForceDaily(i) ==
    /\ At(i, "force", "daily")
    /\ \E dresp \in DailyResponses :
          LET c1 == storeDaily(Here, fetchDailyChallenge(dresp, now))
          IN  Resume(i, [tasks[i] EXCEPT !.pc = "fetching", !.state = c1.store,
                                         !.t = now],
                     c1, [NoOp EXCEPT !.op = "await"])
    /\ UNCHANGED burst

\* forceSync: the answer of fetchTodaySolves arrives; when logged in it is
\* written over the day's progress; the policy is evaluated and the listener
\* sends {ok: true}.
ForceResponse(i) ==
    /\ At(i, "force", "fetching")
    /\ \E resp \in Responses(now) :
          LET updated == tasks[i].state
              r  == fetchTodaySolves(resp, now)
              c1 == [Here EXCEPT !.fx.fetches = 1, !.fx.dailyFetches = 1,
                                 !.fx.kind = resp.kind, !.fx.res = r]
              dailySolved == IF updated.dailySlug # NullStr
                             THEN updated.dailySlug \in r.slugs ELSE FALSE
              c2 == IF r.loggedIn
                    THEN setState(c1, [solvesToday  |-> r.count,
                                       solvedSlugs  |-> r.slugs,
                                       lastPollDate |-> todayUTC(now),
                                       loggedIn     |-> "true",
                                       dailySolved  |-> dailySolved])
                    ELSE c1
          IN  Resume(i, Idle, sendResponse(evaluateBlocking(c2), "ok"),
                     [NoOp EXCEPT !.op = "force"])
    /\ UNCHANGED burst

\* The runs whose activity query is in flight.
InFlight == {i \in TaskIds : tasks[i].pc = "fetching"}

\* ---------------------------------------------------------- specifications

\* One UTC day of detection and reconciliation.
NextSync ==
    \/ Tick(SyncTimes)
    \/ SolveDetected
    \/ AlarmVerify
    \/ GetState
    \/ SaveSettings({TRUE})
    \/ SettingsUpdated
    \/ ForceSync
    \/ Startup

SpecSync == Init /\ [][NextSync]_vars

\* Navigation under every combination of progress and bypass; the progress
\* comes from the poll behind GET_STATE.  PolicyTimes reaches the instant the
\* bypass expires.
PolicyTimes ==
    {FirstDay * MS_PER_DAY + o : o \in {0, MIN_POLL_INTERVAL_MS, BYPASS_DURATION_MS}}

PolicyUrls == {SITE, NEWTAB}

NextPolicy ==
    \/ Tick(PolicyTimes)
    \/ Navigate(PolicyUrls)
    \/ SaveSettings({TRUE})
    \/ GetState
    \/ ActivateBypass
    \/ AlarmBypassExpiry

SpecPolicy == Init /\ [][NextPolicy]_vars

\* Several UTC days of solving, with the midnight reset.
DayTimes == {d * MS_PER_DAY + o : d \in FirstDay..MaxDay, o \in {0, 50000}}

NextDays ==
    \/ Tick(DayTimes)
    \/ SaveSettings({TRUE})
    \/ SolveDetected
    \/ AlarmVerify
    \/ AlarmDailyReset

SpecDays == Init /\ [][NextDays]_vars

\* The emergency bypass over two UTC days: activation, expiry three hours
\* later, and the midnight reset, with navigation in between.
BypassTimes ==
    {d * MS_PER_DAY + o : d \in {FirstDay, FirstDay + 1}, o \in {0, BYPASS_DURATION_MS}}

NextBypass ==
    \/ Tick(BypassTimes)
    \/ Navigate(PolicyUrls)
    \/ SaveSettings({TRUE})
    \/ GetState
    \/ ActivateBypass
    \/ AlarmBypassExpiry
    \/ AlarmDailyReset

SpecBypass == Init /\ [][NextBypass]_vars

\* The midnight reset after a day of solving with the bypass in use.
ResetTimes == {FirstDay * MS_PER_DAY, FirstDay * MS_PER_DAY + 50000, (FirstDay + 1) * MS_PER_DAY}

NextReset ==
    \/ Tick(ResetTimes)
    \/ SaveSettings({TRUE})
    \/ SolveDetected
    \/ AlarmVerify
    \/ ActivateBypass
    \/ AlarmBypassExpiry
    \/ AlarmDailyReset

SpecReset == Init /\ [][NextReset]_vars

\* Every operation that writes the day's progress: sensor events, the three
\* reconciliations, the bypass and the midnight reset.
NextProgress ==
    \/ Tick(ResetTimes)
    \/ SetupSave
    \/ SolveDetected
    \/ AlarmVerify
    \/ GetState
    \/ ForceSync
    \/ ActivateBypass
    \/ AlarmBypassExpiry
    \/ AlarmDailyReset

SpecProgress == Init /\ [][NextProgress]_vars

\* Navigation to addresses of every kind, before and after the account is
\* configured, with the goal met and not met, with and without a bypass.
NextUrls ==
    \/ Tick(PolicyTimes)
    \/ Navigate(AllUrls)
    \/ SetupSave
    \/ SolveDetected
    \/ AlarmVerify
    \/ ActivateBypass
    \/ AlarmBypassExpiry

SpecUrls == Init /\ [][NextUrls]_vars

\* Every operation that asks for an account, before and after the account is
\* configured.
NextAccount ==
    \/ Tick(PolicyTimes)
    \/ Navigate(PolicyUrls)
    \/ SetupSave
    \/ SolveDetected
    \/ AlarmVerify
    \/ GetState
    \/ ForceSync
    \/ Startup
    \/ ActivateBypass
    \/ AlarmBypassExpiry

SpecAccount == Init /\ [][NextAccount]_vars

\* Two UTC days of solving with the completion notification switched on and
\* off in the settings.
NextNotify ==
    \/ Tick(ResetTimes)
    \/ SaveSettings(BOOLEAN)
    \/ SolveDetected
    \/ AlarmVerify
    \/ AlarmDailyReset

SpecNotify == Init /\ [][NextNotify]_vars

\* Time passes as in Tick; the runs in progress finish within the UTC day
\* they started on (their awaits are storage calls), so midnight passes only
\* when no run is suspended.
TickWithinDay(T) ==
    /\ Tick(T)
    /\ \/ todayUTC(now') = todayUTC(now)
       \/ tasks = NoTasks

\* Sensor events whose handlers overlap within a UTC day, on two UTC days with
\* the midnight reset between them, with the goal at one solve.
NextRaceSolve ==
    \/ TickWithinDay(ResetTimes)
    \/ AlarmVerify
    \/ AlarmDailyReset
    \/ \E i \in TaskIds :
          \/ SolveRead(i)
          \/ SolveWrite(i)
          \/ SolveCheck(i)
          \/ SolveStreakRead(i)
          \/ SolveStreakWrite(i)
          \/ SolveFinish(i)

SpecRaceSolve == Init /\ [][NextRaceSolve]_vars

\* ACTIVATE_BYPASS requests whose handlers overlap, with the expiry alarm and
\* the midnight reset.
NextRaceBypass ==
    \/ Tick(BypassTimes)
    \/ SetupSave
    \/ Navigate(PolicyUrls)
    \/ AlarmBypassExpiry
    \/ AlarmDailyReset
    \/ \E i \in TaskIds :
          \/ BypassRead(i)
          \/ BypassWrite(i)

SpecRaceBypass == Init /\ [][NextRaceBypass]_vars

\* The verification alarm with sensor events handled while its query is in
\* flight.
NextRaceVerify ==
    \/ Tick(SyncTimes)
    \/ SetupSave
    \/ SolveDetected
    \/ \E i \in TaskIds :
          \/ VerifyRead(i)
          \/ VerifyGate(i)
          \/ VerifyStamp(i)
          \/ VerifyResponse(i)

SpecRaceVerify == Init /\ [][NextRaceVerify]_vars

\* GET_STATE polls that overlap, before and after the account is configured.
NextRacePoll ==
    \/ Tick(SyncTimes)
    \/ SetupSave
    \/ \E i \in TaskIds :
          \/ PollRead(i)
          \/ PollGate(i)
          \/ PollStamp(i)
          \/ PollDaily(i)
          \/ PollResponse(i)

SpecRacePoll == Init /\ [][NextRacePoll]_vars

\* Midnight passing while the worker does not run, followed by the late reset
\* alarm and by the browser's startup event, in either order.
NextMidnight ==
    \/ Tick(ResetTimes)
    \/ SetupSave
    \/ SolveDetected
    \/ AlarmVerify
    \/ ActivateBypass
    \/ AlarmBypassExpiry
    \/ AlarmDailyReset
    \/ Startup

SpecMidnight == Init /\ [][NextMidnight]_vars

\* Force syncs taken one await at a time, with the remote free to answer or
\* not.  The worker's event loop resumes a run whose storage call has
\* completed, so the steps that wait for the store are weakly fair; nothing
\* in the code bounds the wait for the remote (fetch is called without a
\* signal or a timer), so the steps that wait for an answer are not.
NextForceRuns ==
    \/ Tick(SyncTimes)
    \/ SetupSave
    \/ \E i \in TaskIds :
          \/ ForceRead(i)
          \/ ForceGate(i)
          \/ ForceStamp(i)
          \/ ForceDaily(i)
          \/ ForceResponse(i)

SpecForceRuns ==
    /\ Init
    /\ [][NextForceRuns]_vars
    /\ \A i \in TaskIds : WF_vars(ForceGate(i)) /\ WF_vars(ForceStamp(i))

\* A bypass activated an hour before midnight, which would run for two hours
\* into the next UTC day, with the midnight reset, navigation and solving.
LateBypassTimes ==
    { FirstDay * MS_PER_DAY,
      (FirstDay + 1) * MS_PER_DAY - BYPASS_DURATION_MS \div 3,
      (FirstDay + 1) * MS_PER_DAY,
      (FirstDay + 1) * MS_PER_DAY + 2 * (BYPASS_DURATION_MS \div 3) }

NextLateBypass ==
    \/ Tick(LateBypassTimes)
    \/ Navigate(PolicyUrls)
    \/ SetupSave
    \/ SolveDetected
    \/ AlarmVerify
    \/ ActivateBypass
    \/ AlarmBypassExpiry
    \/ AlarmDailyReset

SpecLateBypass == Init /\ [][NextLateBypass]_vars

\* ------------------------------------------------------------------ claims

\* The blocking policy's decision for a navigation to url in a stored state.
BlockingPolicy(state, t, url) ==
    IF evaluateTab(Ctx(state, url, NoAlarms, t), url).fx.redirected
    THEN "REDIRECT" ELSE "ALLOW"

Reconciliations == {"verify", "getstate", "startup", "settings", "force"}

\* C2: a SOLVE_DETECTED for a slug already in solvedSlugs leaves solvesToday,
\* solvedSlugs and dailySolved as they were; the first event of an empty day
\* gives solvesToday = 1 and the same slug delivered again leaves it at 1.
C2_IdempotentDetection ==
    [][ /\ (last'.op = "solve" /\ last'.slug \in store.solvedSlugs)
            => /\ store'.solvesToday = store.solvesToday
               /\ store'.solvedSlugs = store.solvedSlugs
               /\ store'.dailySolved = store.dailySolved
        /\ (last'.op = "solve" /\ store.solvedSlugs = {} /\ store.solvesToday = 0)
            => /\ store'.solvesToday = 1
               /\ store'.solvedSlugs = {last'.slug}
        /\ (last.op = "solve" /\ ~last.dup /\ store.solvedSlugs = {last.slug}
              /\ store.solvesToday = 1 /\ last'.op = "solve" /\ last'.slug = last.slug)
            => store'.solvesToday = 1
      ]_vars

C2_Witness ==
    /\ last.op = "solve"
    /\ last.dup
    /\ store.solvesToday = 1
    /\ store.solvedSlugs = {last.slug}

\* C3: with an account, dailyGoal 2, requireDaily off, an empty day and no
\* bypass, the first solve gives solvesToday = 1 and the policy redirects a
\* non-exempt address; the second solve gives solvesToday = 2, fires GoalMet
\* with currentStreak = 1 (the goal was last met neither today nor yesterday)
\* and the policy allows the address.
C3_Scenario(st) ==
    /\ st.leetcodeUsername # ""
    /\ st.dailyGoal = 2
    /\ ~st.requireDaily
    /\ ~(st.bypassExpiresAt # Null /\ now < st.bypassExpiresAt)

C3_EndToEnd ==
    [][ /\ (last'.op = "solve" /\ C3_Scenario(store)
              /\ store.solvedSlugs = {} /\ store.solvesToday = 0)
            => /\ store'.solvesToday = 1
               /\ BlockingPolicy(store', now', SITE) = "REDIRECT"
        /\ (last'.op = "solve" /\ C3_Scenario(store)
              /\ store.solvesToday = 1 /\ Cardinality(store.solvedSlugs) = 1
              /\ last'.slug \notin store.solvedSlugs
              /\ store.lastGoalMetDate # todayUTC(now) - 1
              /\ store.lastGoalMetDate # todayUTC(now))
            => /\ store'.solvesToday = 2
               /\ last'.fx.goalMetFired
               /\ store'.currentStreak = 1
               /\ store'.lastGoalMetDate = todayUTC(now)
               /\ BlockingPolicy(store', now', SITE) = "ALLOW"
      ]_vars

C3_Witness ==
    /\ last.op = "solve"
    /\ C3_Scenario(store)
    /\ store.solvedSlugs = {"a", "b"}
    /\ store.solvesToday = 2
    /\ last.fx.goalMetFired
    /\ store.currentStreak = 1
    /\ BlockingPolicy(store, now, SITE) = "ALLOW"

\* C4: every remote reconciliation that completes within a UTC day leaves
\* solvedSlugs a superset of what it started from and never decreases
\* solvesToday.
C4_MergeNeverOverwrite ==
    [][ (last'.op \in Reconciliations /\ last'.fx.fetches > 0)
            => /\ store.solvedSlugs \subseteq store'.solvedSlugs
               /\ store'.solvesToday >= store.solvesToday
      ]_vars

\* C5: a verification whose remote query succeeds with slug set R and count c
\* on local slugs L stores solvedSlugs = R \cup L, solvesToday =
\* max(c, |R \cup L|) and dailySolved = (dailySlug is in the merged set).
C5_VerifyMerges ==
    [][ (last'.op = "verify" /\ last'.fx.fetches = 1 /\ last'.fx.kind = "ok")
            => LET L == store.solvedSlugs
                   R == last'.fx.res.slugs
                   c == last'.fx.res.count
                   n == Cardinality(R \cup L)
               IN  /\ store'.solvedSlugs = R \cup L
                   /\ store'.solvesToday = IF c >= n THEN c ELSE n
                   /\ store'.dailySolved = (store'.dailySlug # NullStr
                                            /\ store'.dailySlug \in R \cup L)
      ]_vars

C5_Witness ==
    /\ last.op = "verify"
    /\ last.fx.kind = "ok"
    /\ last.fx.res.slugs = {"b", "c"}
    /\ store.solvedSlugs = {"a", "b", "c"}
    /\ store.solvesToday = 3
    /\ store.dailySlug = "b"
    /\ store.dailySolved

BackgroundPolls == {"startup", "getstate", "verify"}

C7_BackgroundGate ==
    [][ (last'.op \in BackgroundPolls /\ store.leetcodeUsername # "")
            => LET cooldown == now - store.lastPollTimestamp >= 300000
                   newDay   == store.lastPollDate # todayUTC(now)
               IN  /\ last'.fx.fetches > 0 => (cooldown \/ newDay)
                   /\ newDay => last'.fx.fetches > 0
      ]_vars

\* C7 amended: with an account, the startup and GET_STATE polls query the
\* remote exactly when the cooldown has passed or no poll is recorded for
\* today; the verification queries exactly when the cooldown has passed, new
\* day or not; without an account none of them queries.
C7_BackgroundGateAmended ==
    [][ last'.op \in BackgroundPolls
            => LET cooldown == now - store.lastPollTimestamp >= 300000
                   newDay   == store.lastPollDate # todayUTC(now)
                   queried  == last'.fx.fetches > 0
               IN  /\ last'.fx.fetches <= 1
                   /\ store.leetcodeUsername = "" => ~queried
                   /\ (store.leetcodeUsername # "" /\ last'.op # "verify")
                        => (queried <=> (cooldown \/ newDay))
                   /\ (store.leetcodeUsername # "" /\ last'.op = "verify")
                        => (queried <=> cooldown)
      ]_vars

C7_Witness ==
    /\ last.op = "getstate"
    /\ last.pre.newDay
    /\ ~last.pre.cooldown
    /\ last.fx.fetches = 1

\* C8 as claimed: with an account, a force sync reaches the remote exactly
\* when the last user-initiated sync is 10 s or more ago.
C8_InteractiveGate ==
    [][ (last'.op = "force" /\ store.leetcodeUsername # "")
            => (last'.fx.fetches > 0
                  <=> (lastUserSync = Null \/ now - lastUserSync >= 10000))
      ]_vars

\* C8 amended: with an account, a force sync reaches the remote exactly when
\* lastPollTimestamp, the stamp of the last remote query of any kind, is 10 s
\* or more ago, whatever the state of the 5-minute cooldown; it then writes
\* that stamp itself.
C8_InteractiveGateAmended ==
    [][ (last'.op = "force" /\ store.leetcodeUsername # "")
            => /\ last'.fx.fetches > 0 <=> now - store.lastPollTimestamp >= 10000
               /\ last'.fx.fetches > 0 => store'.lastPollTimestamp = now
               /\ last'.fx.fetches = 0 => store' = store
      ]_vars

C8_Witness ==
    /\ last.op = "force"
    /\ ~last.pre.cooldown
    /\ last.fx.fetches = 1
    /\ store.lastPollTimestamp = now

\* C9: a reconciliation whose activity query fails leaves solvesToday,
\* solvedSlugs and dailySolved as they were.
C9_FailureKeepsProgress ==
    [][ (last'.op \in Reconciliations /\ last'.fx.fetches > 0
            /\ last'.fx.kind \in {"auth", "neterr"})
            => /\ store'.solvesToday = store.solvesToday
               /\ store'.solvedSlugs = store.solvedSlugs
               /\ store'.dailySolved = store.dailySolved
      ]_vars

\* C1: for a navigation to an address that is not exempt, with a non-empty
\* username, the tab is redirected to the block page exactly when the goal is
\* not met and no bypass is active; otherwise the tab stays on the address and
\* the store is untouched.
C1_PolicyDecision ==
    [][ (last'.op = "navigate" /\ ~isUrlAllowed(last'.url)
            /\ store.leetcodeUsername # "")
            => LET met    == store.solvesToday >= store.dailyGoal
                             /\ (~store.requireDaily \/ store.dailySolved)
                   bypass == store.bypassExpiresAt # Null
                             /\ now < store.bypassExpiresAt
               IN  /\ last'.fx.redirected <=> (~met /\ ~bypass)
                   /\ last'.fx.redirected
                        => (tab' = BLOCKED_PAGE /\ store'.lastBlockedUrl = last'.url)
                   /\ ~last'.fx.redirected
                        => (tab' = last'.url /\ store' = store)
      ]_vars

\* A redirect at the instant a bypass has run out, its expiry alarm not yet
\* handled.
C1_Witness ==
    /\ last.op = "navigate"
    /\ last.url = SITE
    /\ last.fx.redirected
    /\ tab = BLOCKED_PAGE
    /\ store.bypassExpiresAt # Null
    /\ now >= store.bypassExpiresAt
    /\ store.solvesToday = 1
    /\ store.dailyGoal = 2

\* C10: when a solve fires GoalMet on UTC day D with lastGoalMetDate # D,
\* currentStreak becomes the old streak + 1 if lastGoalMetDate is D - 1 and 1
\* otherwise, longestStreak becomes the larger of its old value and the new
\* streak, and lastGoalMetDate becomes D.
C10_StreakContinuity ==
    [][ (last'.op = "solve" /\ last'.fx.goalMetFired
            /\ store.lastGoalMetDate # now \div 86400000)
            => LET D == now \div 86400000
                   newStreak == IF store.lastGoalMetDate = D - 1
                                THEN store.currentStreak + 1 ELSE 1
               IN  /\ store'.currentStreak = newStreak
                   /\ store'.longestStreak =
                        (IF store.longestStreak >= newStreak
                         THEN store.longestStreak ELSE newStreak)
                   /\ store'.lastGoalMetDate = D
      ]_vars

\* The goal met on two consecutive days: the streak and the record are 2.
C10_Witness ==
    /\ last.op = "solve"
    /\ last.fx.goalMetFired
    /\ store.currentStreak = 2
    /\ store.longestStreak = 2
    /\ store.lastGoalMetDate = todayUTC(now)

\* C11: when the GoalMet transition fires again on a UTC day on which
\* lastGoalMetDate already equals today, currentStreak, longestStreak and
\* lastGoalMetDate keep their values.
C11_StreakNoDoubleCount ==
    [][ (last'.fx.goalMetFired /\ store.lastGoalMetDate = now \div 86400000)
            => /\ store'.currentStreak = store.currentStreak
               /\ store'.longestStreak = store.longestStreak
               /\ store'.lastGoalMetDate = store.lastGoalMetDate
      ]_vars

\* The goal met a second time on the second of two consecutive goal days: the
\* streak is still 2.
C11_Witness ==
    /\ last.op = "solve"
    /\ last.fx.goalMetFired
    /\ last.metToday
    /\ store.currentStreak = 2
    /\ store.lastGoalMetDate = todayUTC(now)

C14_DailyReset ==
    [][ last'.op = "reset"
            => /\ store'.solvesToday = 0
               /\ store'.solvedSlugs = {}
               /\ store'.dailySolved = FALSE
               /\ store'.bypassUsed = FALSE
               /\ store'.bypassExpiresAt = Null
               /\ store'.lastPollDate = Null
               /\ \/ /\ store'.dailySlug = NullStr
                     /\ store'.dailyTitle = NullStr
                     /\ store'.dailyLink = NullStr
                  \/ /\ store.leetcodeUsername # ""
                     /\ last'.fx.dailyFetches = 1
                     /\ store'.dailySlug = fetchDailyChallenge("ok", now).slug
               /\ store.leetcodeUsername = "" => last'.fx.dailyFetches = 0
               /\ store'.currentStreak = store.currentStreak
               /\ store'.longestStreak = store.longestStreak
               /\ store'.lastGoalMetDate = store.lastGoalMetDate
               /\ store'.leetcodeUsername = store.leetcodeUsername
               /\ store'.dailyGoal = store.dailyGoal
               /\ store'.requireDaily = store.requireDaily
               /\ store'.notifyOnComplete = store.notifyOnComplete
      ]_vars

\* The reset handled after a day on which the goal was met and the bypass
\* used: the streak is kept, the bypass is available again.
C14_Witness ==
    /\ last.op = "reset"
    /\ store.currentStreak = 1
    /\ store.lastGoalMetDate = todayUTC(now) - 1
    /\ store.solvesToday = 0
    /\ store.solvedSlugs = {}
    /\ ~store.bypassUsed
    /\ alarms.bypassExpiry # Null
    /\ store.dailyGoal = 2

\* C15: between handlers, solvesToday is the number of distinct slugs in
\* solvedSlugs.
C15_CountMatchesSlugs == store.solvesToday = Cardinality(store.solvedSlugs)

\* A verification has merged a remote list into the sensors' record.
C15_Witness ==
    /\ last.op = "verify"
    /\ last.fx.kind = "ok"
    /\ store.solvedSlugs = {"a", "b", "c"}
    /\ store.solvesToday = 3
    /\ store.bypassUsed

\* C16: in every reachable state longestStreak >= currentStreak >= 0.
C16_StreakOrder ==
    /\ store.longestStreak >= store.currentStreak
    /\ store.currentStreak >= 0

\* A streak of two days standing after the next midnight reset.
C16_Witness ==
    /\ last.op = "reset"
    /\ store.currentStreak = 2
    /\ store.longestStreak = 2
    /\ store.lastGoalMetDate = todayUTC(now) - 1

\* C17: between handlers, dailySolved is true exactly when dailySlug is
\* non-null and a member of solvedSlugs.
C17_DailySolvedIsMembership ==
    store.dailySolved <=> (store.dailySlug # NullStr /\ store.dailySlug \in store.solvedSlugs)

\* C18: a navigation to the empty address or to one that does not parse as a
\* URL is never redirected and writes nothing to the store, whatever the state.
C18_PolicyFailOpen ==
    [][ (last'.op = "navigate" /\ (last'.url = EmptyUrl \/ ~last'.url.parses))
            => /\ ~last'.fx.redirected
               /\ tab' = last'.url
               /\ store' = store
      ]_vars

\* An unparsable address allowed with an account configured, the goal not met
\* and no bypass, where the same state redirects a parsable one.
C18_Witness ==
    /\ last.op = "navigate"
    /\ last.url = GARBAGE
    /\ tab = GARBAGE
    /\ store.leetcodeUsername # ""
    /\ store.solvesToday < store.dailyGoal
    /\ store.bypassExpiresAt = Null
    /\ BlockingPolicy(store, now, SITE) = "REDIRECT"

\* C20: a navigation to an address that starts with an exempt prefix, or whose
\* host name, lower-cased and without one leading www label, is on the
\* allow-list, is never redirected and writes nothing to the store, whatever
\* the state.
C20_ExemptNeverRedirected ==
    [][ (last'.op = "navigate" /\ last'.url \in ExemptUrls)
            => /\ ~last'.fx.redirected
               /\ tab' = last'.url
               /\ store' = store
      ]_vars

\* The tracked service's own site, typed in mixed case with a www label,
\* allowed in a state that redirects another site.
C20_Witness ==
    /\ last.op = "navigate"
    /\ last.url = WWW_LEETCODE
    /\ tab = WWW_LEETCODE
    /\ store.leetcodeUsername # ""
    /\ store.solvesToday < store.dailyGoal
    /\ store.bypassExpiresAt = Null
    /\ BlockingPolicy(store, now, WWW_WWW_LEETCODE) = "REDIRECT"

\* C19: while leetcodeUsername is empty no handler redirects a tab or writes
\* lastBlockedUrl; a navigation leaves the tab on its address and the store
\* untouched; the background poll (startup, GET_STATE), the verification and
\* the force sync send no request and leave the store untouched.
C19_InertUntilConfigured ==
    [][ store.leetcodeUsername = ""
            => /\ ~last'.fx.redirected
               /\ store'.lastBlockedUrl = store.lastBlockedUrl
               /\ last'.op = "navigate" => (tab' = last'.url /\ store' = store)
               /\ last'.op \in {"startup", "getstate", "verify", "force"}
                    => /\ last'.fx.fetches = 0
                       /\ last'.fx.dailyFetches = 0
                       /\ store' = store
                       /\ tab' = tab
      ]_vars

\* A force sync without an account, with no solve recorded, the bypass used
\* up and a site in the focused tab that a configured account would be kept
\* from: nothing was asked and the tab stays.
C19_Witness ==
    /\ last.op = "force"
    /\ store.leetcodeUsername = ""
    /\ last.fx.fetches = 0
    /\ store.solvesToday = 0
    /\ store.bypassUsed
    /\ store.bypassExpiresAt = Null
    /\ tab = SITE
    /\ BlockingPolicy([store EXCEPT !.leetcodeUsername = USER], now, SITE) = "REDIRECT"

\* C21: a goal-complete notification is emitted only by a handler that saw the
\* goal go from not met to met, never when notifyOnComplete is false, and the
\* streak it carries is the currentStreak stored by that GoalMet transition,
\* whose date is today's.
C21_NotificationOnTransition ==
    [][ last'.fx.notified # Null =>
            /\ last'.fx.goalMetFired
            /\ ~goalMet(store) /\ goalMet(store')
            /\ store.notifyOnComplete
            /\ last'.fx.notified = store'.currentStreak
            /\ store'.lastGoalMetDate = todayUTC(now)
      ]_vars

\* A notification carrying a streak of two days has been emitted.
C21_Witness ==
    /\ last.fx.notified = 2
    /\ last.fx.goalMetFired
    /\ store.currentStreak = 2

\* C22: a SETTINGS_UPDATED message handled while an account is configured
\* makes one remote reconciliation attempt whatever the stamp of the last
\* query was (the stamp is cleared before the gate is read), stamps the attempt,
\* records the poll for today, and is acknowledged with {ok: true} after the
\* attempt.
C22_SettingsForcePoll ==
    [][ last'.op = "settings" =>
            /\ last'.fx.fetches = 1
            /\ last'.fx.dailyFetches = 1
            /\ last'.fx.response = "ok"
            /\ last'.fx.acked = 1
            /\ store'.lastPollTimestamp = now
            /\ store'.lastPollDate = todayUTC(now)
      ]_vars

\* SETTINGS_UPDATED reached the remote although a query had been stamped at
\* the same instant and a poll was already recorded for today.
C22_Witness ==
    /\ last.op = "settings"
    /\ ~last.pre.cooldown /\ ~last.pre.newDay
    /\ last.fx.fetches = 1
    /\ last.fx.acked = 1

C25_TransitionAfterEveryMutation ==
    [][ ( /\ last'.op \in {"solve", "verify", "getstate", "startup", "settings", "force"}
          /\ ~goalMet(store) /\ goalMet(store')
          /\ store.lastGoalMetDate # todayUTC(now) )
        => /\ last'.fx.goalMetFired
           /\ store'.lastGoalMetDate = todayUTC(now)
           /\ store'.currentStreak =
                  IF store.lastGoalMetDate = yesterdayUTC(now)
                  THEN store.currentStreak + 1 ELSE 1
      ]_vars

\* C24: under any interleaving of near-simultaneous triggers, at most one
\* remote activity query is in flight at any time; a trigger that starts while
\* a query is in flight is denied by its gate, also on a new UTC day.
C24_OneQueryInFlight == Cardinality(InFlight) <= 1

\* C26: sensor events whose handlers interleave commute: the slug of every
\* SOLVE_DETECTED handler that is past its write is in solvedSlugs, and
\* solvesToday counts the slugs, as when the handlers run one after the other.
C26_SensorEventsCommute ==
    /\ store.solvesToday = Cardinality(store.solvedSlugs)
    /\ \A i \in TaskIds :
          (tasks[i].kind = "solve" /\ tasks[i].pc # "write")
              => tasks[i].slug \in store.solvedSlugs

\* C27: the write of a verification keeps every slug that is in the store when
\* it lands, those recorded while its query was in flight included, and does
\* not lower solvesToday.
C27_VerifyKeepsConcurrentSolves ==
    [][ (\E i \in TaskIds : At(i, "verify", "fetching") /\ tasks'[i] = Idle)
            => /\ store.solvedSlugs \subseteq store'.solvedSlugs
               /\ store'.solvesToday >= store.solvesToday
      ]_vars

\* C28: an ACTIVATE_BYPASS request returns success only if no bypass has been
\* used since the last daily reset when its write lands, and a stored expiry
\* is never replaced by another one, only cleared.
C28_OneBypassUnderRaces ==
    [][ /\ (last'.op = "bypass" /\ last'.fx.response = "success")
               => ~store.bypassUsed
        /\ store.bypassExpiresAt # Null
               => store'.bypassExpiresAt \in {Null, store.bypassExpiresAt}
      ]_vars

\* C29: within one UTC day, however the sensor handlers interleave, the streak
\* changes at most once: once lastGoalMetDate is today neither it nor
\* currentStreak changes again, and the one change sets lastGoalMetDate to
\* today and currentStreak to the streak continued from yesterday or to 1.
C29_StreakOncePerDayUnderRaces ==
    [][ /\ store.lastGoalMetDate = todayUTC(now)
               => /\ store'.lastGoalMetDate = store.lastGoalMetDate
                  /\ store'.currentStreak = store.currentStreak
        /\ store'.lastGoalMetDate # store.lastGoalMetDate
               => /\ store'.lastGoalMetDate = todayUTC(now)
                  /\ store'.currentStreak =
                         IF store.lastGoalMetDate = yesterdayUTC(now)
                         THEN store.currentStreak + 1 ELSE 1
        /\ store'.currentStreak # store.currentStreak
               => store'.lastGoalMetDate # store.lastGoalMetDate
      ]_vars

\* Two overlapping sensor handlers have both seen the goal become met and
\* both passed the same-day guard of updateStreak; one has written the streak
\* of two days, the other is about to write.
C29_Witness ==
    /\ tasks["t1"].fired /\ tasks["t2"].fired
    /\ tasks["t1"].pc = "finish" /\ tasks["t1"].t # Null
    /\ tasks["t2"].pc = "streakWrite"
    /\ store.lastGoalMetDate = todayUTC(now)
    /\ store.currentStreak = 2

\* C30: no missed resets: once a UTC midnight has passed, the dailyReset alarm
\* armed for it stays due until the Daily Reset transition runs for it; no
\* handler, the startup routine included, discards it unhandled.
C30_NoMissedReset ==
    [][ Due(ALARM_DAILY_RESET) =>
            \/ last'.op = "reset"
            \/ alarms'[ALARM_DAILY_RESET] = alarms[ALARM_DAILY_RESET]
      ]_vars

\* C31: a SOLVE_DETECTED run that read the store before the Daily Reset writes
\* no daily data of before the reset back: the write that lands right after
\* the reset stores the run's own slug alone, counted once.
C31_NoStaleWriteAfterReset ==
    [][ \A i \in TaskIds :
            (last.op = "reset" /\ At(i, "solve", "write") /\ tasks'[i].pc = "check")
                => /\ store'.solvedSlugs \subseteq {tasks[i].slug}
                   /\ store'.solvesToday <= 1
      ]_vars

\* C32: loggedIn becomes false exactly on an authentication rejection: every
\* reconciliation whose activity query is rejected with HTTP 401/403 stores
\* loggedIn = false, and one whose query fails otherwise (network error,
\* unparsable body) leaves loggedIn as it was.
C32_LoggedInOnAuthRejection ==
    [][ last'.fx.fetches = 1 =>
            /\ last'.fx.kind = "auth" => store'.loggedIn = "false"
            /\ last'.fx.kind = "neterr" => store'.loggedIn = store.loggedIn
      ]_vars

\* C33: every force sync terminates: a run that has started eventually
\* completes and its acknowledgement is sent, also when the remote never
\* answers.
C33_ForceSyncTerminates ==
    \A i \in TaskIds : (tasks[i].kind = "force") ~> (tasks[i].kind = "idle")

\* C34: the featured-challenge query is issued at most once per UTC day: a
\* handler that runs when today's featured challenge is already stored does
\* not call fetchDailyChallenge.
C34_DailyFetchedOncePerDay ==
    [][ store.dailySlug = fetchDailyChallenge("ok", now).slug
            => last'.fx.dailyFetches = 0
      ]_vars

\* C35: handling a SOLVE_DETECTED event performs no remote query.  The
\* optimistic update is in the store when the goal check and the policy
\* evaluation run (the transition is judged, and the focused tab redirected or
\* not, on the updated state), the verifyAfterSolve alarm is armed for
\* VERIFY_DELAY_MS later, and the acknowledgement follows no query.  The
\* verification queries the remote only once that alarm is due.
C35_OptimisticThenDebounce ==
    [][ /\ last'.op = "solve" =>
               /\ last'.fx.fetches = 0 /\ last'.fx.dailyFetches = 0
               /\ last'.slug \in store'.solvedSlugs
               /\ ~last'.dup => store'.solvesToday = Cardinality(store.solvedSlugs) + 1
               /\ last'.fx.goalMetFired <=> (~goalMet(store) /\ goalMet(store'))
               /\ last'.fx.redirected => ~goalMet(store')
               /\ alarms'[ALARM_VERIFY_SOLVE] = now + VERIFY_DELAY_MS
               /\ last'.fx.response = "ok" /\ last'.fx.acked = 0
        /\ (last'.op = "verify" /\ last'.fx.fetches > 0) =>
               /\ alarms[ALARM_VERIFY_SOLVE] # Null
               /\ alarms[ALARM_VERIFY_SOLVE] <= now
      ]_vars

\* A sensor event met the goal while a blocked site was focused: the update
\* was committed, the transition fired, the tab was left alone, the alarm is
\* armed and no query was made.
C35_Witness ==
    /\ last.op = "solve" /\ ~last.dup
    /\ store.leetcodeUsername # ""
    /\ last.fx.goalMetFired /\ ~last.fx.redirected
    /\ tab = SITE
    /\ last.fx.fetches = 0
    /\ alarms[ALARM_VERIFY_SOLVE] = now + VERIFY_DELAY_MS

\* C36: when the Daily Reset completes with an account configured, the goal
\* is not met and no bypass is active, whatever was left of a bypass of the
\* previous day, and the reset's evaluation redirects a focused non-exempt
\* tab; from then on, as long as no progress and no bypass is recorded, every
\* non-exempt navigation is redirected.
C36_BlockedAfterReset ==
    [][ /\ (last'.op = "reset" /\ store'.leetcodeUsername # "") =>
               /\ ~goalMet(store')
               /\ ~bypassActive(store', now)
               /\ (tab # NoTab /\ ~isUrlAllowed(tab)) =>
                      (last'.fx.redirected /\ tab' = BLOCKED_PAGE)
        /\ ( /\ last'.op = "navigate"
             /\ store.leetcodeUsername # ""
             /\ store.solvesToday = 0
             /\ store.bypassExpiresAt = Null
             /\ ~isUrlAllowed(last'.url) ) =>
               (last'.fx.redirected /\ tab' = BLOCKED_PAGE)
      ]_vars

\* The reset ran while a bypass of the previous day had two hours left (its
\* expiry alarm is still pending) and redirected the focused site.
C36_Witness ==
    /\ last.op = "reset"
    /\ store.leetcodeUsername # ""
    /\ alarms[ALARM_BYPASS_EXPIRY] # Null /\ alarms[ALARM_BYPASS_EXPIRY] > now
    /\ todayUTC(alarms[ALARM_BYPASS_EXPIRY] - BYPASS_DURATION_MS) = yesterdayUTC(now)
    /\ last.fx.redirected
    /\ tab = BLOCKED_PAGE

\* C37: at most one goal-complete notification per UTC day: a handler that
\* starts on a day whose streak was already advanced (lastGoalMetDate is
\* today) emits no notification, whatever transition it observes.
C37_OneNotificationPerDay ==
    [][ store.lastGoalMetDate = todayUTC(now) => last'.fx.notified = Null ]_vars

\* C38: in every state reached by overlapping bypass activations, the expiry
\* alarm and the daily reset, a stored bypass expiry comes with bypassUsed.
C38_ActiveBypassIsUsed ==
    store.bypassExpiresAt # Null => store.bypassUsed

\* An activation that read the state before midnight wrote after the daily
\* reset had run: its expiry, counted from the read, is stored and marked.
C38_Witness ==
    /\ last.op = "bypass"
    /\ last.fx.response = "success"
    /\ store.bypassExpiresAt # Null
    /\ store.bypassUsed
    /\ todayUTC(store.bypassExpiresAt - BYPASS_DURATION_MS) = yesterdayUTC(now)
    /\ alarms[ALARM_DAILY_RESET] # Null /\ alarms[ALARM_DAILY_RESET] > now

====
